---------------------------- MODULE Spec2Model ----------------------------
(***************************************************************************)
(* The nexus_security_user_role resource (package security): the five      *)
(* lifecycle hooks Create, Read, Update, Delete and Exists, run against a   *)
(* remote user store whose only write is a full replace of the user, and    *)
(* which other actors edit between hooks.                                   *)
(*                                                                          *)
(* A hook runs to completion as one action.  Every call it makes on the     *)
(* client is appended to a log (calls) that is kept, with the state the     *)
(* hook started from, in the variable last.                                 *)
(***************************************************************************)
EXTENDS Naturals, Sequences, FiniteSets

\* ------------------------------------------------------------ bounds
\* Longest role list another actor gives the remote user.
MaxRoles == 3

\* ------------------------------------------------------------ values
Roles == {"admin", "dev"}
\* Set.List() returns the members of a schema.Set in the order of their hash
\* codes: a fixed order that does not depend on insertion.
RoleOrder == <<"admin", "dev">>
UserId == "alice"
Emails == {"a@x", "b@x"}

NoErr == "nil"
Panic == "panic"
\* Errors the transport may inject into any call.
Errors == {"timeout"}
\* The store's answer to a replace of a user it does not hold.
NotFoundErr == "http404"
Ok == "ok"
Outcomes == {Ok} \cup Errors
\* A hook makes at most three client calls (Create: Get, Update, Get).
CallIdx == 1..3

Range(s) == {s[i] : i \in DOMAIN s}

\* tools.InterfaceSliceToStringSlice(set.List())
SetToSeq(S) == SelectSeq(RoleOrder, LAMBDA r : r \in S)

\* A nil *security.User.
NoUser == [present |-> FALSE, userid |-> "", roles |-> <<>>, email |-> ""]

VARIABLES
  remote,   \* the user held by the remote store (NoUser: the store has no such user)
  state,    \* the resource's persisted local state (id = "": ABSENT)
  config,   \* the roles declared in the configuration
  last,     \* the hook that has just run (its name, start state, client calls and
            \* result); NoHook once anything else has happened
  calc      \* the inputs and results of the role computations taken alone
            \* (NoCalc while the hooks run)

vars == <<remote, state, config, last, calc>>

AbsentState == [id |-> "", userid |-> "", roles |-> {}, email |-> ""]

NoCalc == [step |-> "none", D |-> <<>>, R |-> <<>>, once |-> <<>>, twice |-> <<>>,
           ab |-> FALSE, ba |-> FALSE]

NoHook == [hook |-> "none", pre |-> [remote |-> NoUser, state |-> AbsentState, config |-> {}],
           calls |-> <<>>, err |-> NoErr, exists |-> FALSE]

\* ------------------------------------------------------------ remote store
\* client.Security.User.Get(id): (nil, err) on a failure, (nil, nil) when the
\* store holds no user of that id, the user otherwise.
ClientGet(rem, key, out) ==
  IF out # Ok THEN [err |-> out, user |-> NoUser]
  ELSE IF rem.present /\ rem.userid = key THEN [err |-> NoErr, user |-> rem]
  ELSE [err |-> NoErr, user |-> NoUser]

\* client.Security.User.Update(id, user): a full replace of the user of that id.
ClientUpdate(rem, key, user, out) ==
  IF out # Ok THEN [err |-> out, remote |-> rem]
  ELSE IF rem.present /\ rem.userid = key
       THEN [err |-> NoErr, remote |-> [user EXCEPT !.userid = key]]
  ELSE [err |-> NotFoundErr, remote |-> rem]

\* One entry of a hook's call log.
GetCall(c, g) ==
  [op |-> "Get", key |-> c.d.id, user |-> g.user, err |-> g.err,
   before |-> c.remote, after |-> c.remote]

UpdateCall(c, user, u) ==
  [op |-> "Update", key |-> c.d.id, user |-> user, err |-> u.err,
   before |-> c.remote, after |-> u.remote]

\* ------------------------------------------------------------ ResourceData
\* The schema.ResourceData handed to a hook: id, the fields as d.Get returns
\* them, and for HasChange the prior state's roles (oldRoles) and the planned
\* roles (diffRoles).
DataOf(st, planned) ==
  [id |-> st.id, userid |-> st.userid, roles |-> planned, email |-> st.email,
   oldRoles |-> st.roles, diffRoles |-> planned]

\* d.State(): what the framework persists when the hook returns.
StateOf(d) ==
  IF d.id = "" THEN AbsentState
  ELSE [id |-> d.id, userid |-> d.userid, roles |-> d.roles, email |-> d.email]

\* HasChange as it would be if it always reported a change.
HasChangeAlways(d, setLevel) == TRUE

\* d.HasChange("roles"): the prior state's roles against the planned ones.
\* Whether a d.Set made earlier in the same hook counts as planned is the
\* framework's choice, not this package's: setLevel picks the outcome.
HasChange(d, setLevel) ==
  IF setLevel THEN d.roles # d.oldRoles ELSE d.diffRoles # d.oldRoles

\* The user as it would be built if the Roles field were left out.
UserWithoutRoles(d) ==
  [present |-> TRUE, userid |-> d.userid, roles |-> <<>>, email |-> d.email]

getSecurityUserRoleFromResourceData(d) ==
  [present |-> TRUE, userid |-> d.userid, roles |-> SetToSeq(d.roles), email |-> d.email]

\* ------------------------------------------------------------ hooks
\* A hook's run is a record c: the ResourceData d, the remote user, the calls
\* made so far and the error it returns.  outs[i] is the transport's outcome
\* of the i-th call.
Start(d, rem) == [d |-> d, remote |-> rem, calls |-> <<>>, err |-> NoErr, exists |-> FALSE]

NextOut(c, outs) == outs[Len(c.calls) + 1]

\* Read as it would be if it dropped the client's error.
ReadDroppingError(c, outs) ==
  LET g == ClientGet(c.remote, c.d.id, NextOut(c, outs))
      c1 == [c EXCEPT !.calls = Append(@, GetCall(c, g))]
  IN IF g.err # NoErr \/ ~g.user.present THEN [c1 EXCEPT !.d.id = ""]
     ELSE [c1 EXCEPT !.d.email = g.user.email,
                     !.d.roles = Range(g.user.roles),
                     !.d.userid = g.user.userid]

resourceSecurityUserRoleRead(c, outs) ==
  LET g == ClientGet(c.remote, c.d.id, NextOut(c, outs))
      c1 == [c EXCEPT !.calls = Append(@, GetCall(c, g))]
  IN IF g.err # NoErr THEN [c1 EXCEPT !.err = g.err]
     ELSE IF ~g.user.present THEN [c1 EXCEPT !.d.id = ""]
     ELSE [c1 EXCEPT !.d.email = g.user.email,
                     !.d.roles = Range(g.user.roles),
                     !.d.userid = g.user.userid]

\* The user resource's read, which Create ends with.
resourceSecurityUserRead(c, outs) ==
  LET g == ClientGet(c.remote, c.d.id, NextOut(c, outs))
      c1 == [c EXCEPT !.calls = Append(@, GetCall(c, g))]
  IN IF g.err # NoErr THEN [c1 EXCEPT !.err = g.err]
     ELSE IF ~g.user.present THEN [c1 EXCEPT !.d.id = ""]
     ELSE [c1 EXCEPT !.d.email = g.user.email,
                     !.d.roles = Range(g.user.roles),
                     !.d.userid = g.user.userid]

\* client.Security.User.Update(d.Id(), user) as a step of a run.
Replace(c, user, outs) ==
  LET u == ClientUpdate(c.remote, c.d.id, user, NextOut(c, outs))
  IN [c EXCEPT !.calls = Append(@, UpdateCall(c, user, u)),
               !.remote = u.remote,
               !.err = u.err]

resourceSecurityUserRoleCreate(c, outs) ==
  LET c0 == [c EXCEPT !.d.id = c.d.userid]
      c1 == resourceSecurityUserRoleRead(c0, outs)
  IN IF c1.err # NoErr THEN c1
     ELSE LET user == getSecurityUserRoleFromResourceData(c1.d)
              c2 == Replace(c1, user, outs)
          IN IF c2.err # NoErr THEN c2
             ELSE resourceSecurityUserRead([c2 EXCEPT !.d.id = user.userid], outs)

resourceSecurityUserRoleUpdate(c, outs, setLevel) ==
  IF HasChange(c.d, setLevel)
  THEN LET user == getSecurityUserRoleFromResourceData(c.d)
           c1 == Replace(c, user, outs)
       IN IF c1.err # NoErr THEN c1
          ELSE resourceSecurityUserRoleRead(c1, outs)
  ELSE resourceSecurityUserRoleRead(c, outs)

\* The remainder as it would be with the membership test inverted.
RemainingRolesInverted(stateRoles, apiRoles) ==
  SelectSeq(apiRoles, LAMBDA role : role \in Range(stateRoles))

\* The remainder as it would be if the loop stopped one role early.
RemainingRolesShort(stateRoles, apiRoles) ==
  SelectSeq(SubSeq(apiRoles, 1, Len(apiRoles) - 1), LAMBDA role : role \notin Range(stateRoles))

\* The remainder as it would be if a role of stateUser were dropped once only,
\* at its first place in apiUser.
RemainingRolesFirstOnly(stateRoles, apiRoles) ==
  LET keep(i) == \/ apiRoles[i] \notin Range(stateRoles)
                 \/ \E j \in 1..(i - 1) : apiRoles[j] = apiRoles[i]
      F[i \in 0..Len(apiRoles)] ==
        IF i = 0 THEN <<>>
        ELSE IF keep(i) THEN Append(F[i - 1], apiRoles[i]) ELSE F[i - 1]
  IN F[Len(apiRoles)]

\* The roles Delete keeps: those of apiUser that stateUser does not hold.
RemainingRoles(stateRoles, apiRoles) ==
  SelectSeq(apiRoles, LAMBDA role : role \notin Range(stateRoles))

resourceSecurityUserRoleDelete(c, outs, setLevel) ==
  LET g == ClientGet(c.remote, c.d.id, NextOut(c, outs))
      c1 == [c EXCEPT !.calls = Append(@, GetCall(c, g))]
  IN IF g.err # NoErr THEN [c1 EXCEPT !.err = g.err]
     ELSE IF ~g.user.present THEN [c1 EXCEPT !.err = Panic]
     ELSE LET stateUser == getSecurityUserRoleFromResourceData(c1.d)
              roles == RemainingRoles(stateUser.roles, g.user.roles)
              c2 == [c1 EXCEPT !.d.roles = Range(roles)]
              c3 == resourceSecurityUserRoleUpdate(c2, outs, setLevel)
          IN IF c3.err # NoErr THEN c3
             ELSE [c3 EXCEPT !.d.id = ""]

\* The comparison as it would be without the test of the lengths.
RolesMatchNoLength(stateRoles, apiRoles) ==
  \A i \in DOMAIN apiRoles : apiRoles[i] \in Range(stateRoles)

\* The comparison Exists makes once it holds both users.
RolesMatch(stateRoles, apiRoles) ==
  /\ Len(apiRoles) = Len(stateRoles)
  /\ \A i \in DOMAIN apiRoles : apiRoles[i] \in Range(stateRoles)

\* Exists as it would be if it tested only the error, not the nil user.
ExistsWithoutNilCheck(c, outs) ==
  LET g == ClientGet(c.remote, c.d.id, NextOut(c, outs))
      c1 == [c EXCEPT !.calls = Append(@, GetCall(c, g))]
  IN IF g.err # NoErr THEN [c1 EXCEPT !.exists = FALSE, !.err = g.err]
     ELSE LET stateUser == getSecurityUserRoleFromResourceData(c1.d)
          IN [c1 EXCEPT !.exists = RolesMatch(stateUser.roles, g.user.roles)]

resourceSecurityUserRoleExists(c, outs) ==
  LET g == ClientGet(c.remote, c.d.id, NextOut(c, outs))
      c1 == [c EXCEPT !.calls = Append(@, GetCall(c, g))]
  IN IF ~g.user.present \/ g.err # NoErr THEN [c1 EXCEPT !.exists = FALSE, !.err = g.err]
     ELSE LET stateUser == getSecurityUserRoleFromResourceData(c1.d)
          IN [c1 EXCEPT !.exists = RolesMatch(stateUser.roles, g.user.roles)]

\* ------------------------------------------------------------ actions
Pre == [remote |-> remote, state |-> state, config |-> config]

\* What a finished run leaves: the remote user, the persisted state (the one
\* before the hook if the process crashed) and the record of the run.
Finish(name, c) ==
  /\ remote' = c.remote
  /\ state' = IF c.err = Panic THEN state ELSE StateOf(c.d)
  /\ last' = [hook |-> name, pre |-> Pre, calls |-> c.calls, err |-> c.err,
              exists |-> c.exists]
  /\ UNCHANGED <<config, calc>>

\* Create: the resource is ABSENT; d holds the configuration and no state.
Create ==
  /\ state.id = ""
  /\ \E outs \in [CallIdx -> Outcomes] :
       Finish("Create",
              resourceSecurityUserRoleCreate(
                Start(DataOf([AbsentState EXCEPT !.userid = UserId], config), remote), outs))

\* Read (refresh): d holds the state.
Read ==
  /\ state.id # ""
  /\ \E outs \in [CallIdx -> Outcomes] :
       Finish("Read", resourceSecurityUserRoleRead(Start(DataOf(state, state.roles), remote), outs))

\* Update: d holds the state and the planned (configured) roles.
Update ==
  /\ state.id # ""
  /\ \E outs \in [CallIdx -> Outcomes] :
       Finish("Update",
              resourceSecurityUserRoleUpdate(Start(DataOf(state, config), remote), outs, FALSE))

\* Delete: d holds the state; the plan holds no attribute.
Delete ==
  /\ state.id # ""
  /\ \E outs \in [CallIdx -> Outcomes], setLevel \in BOOLEAN :
       Finish("Delete",
              resourceSecurityUserRoleDelete(Start(DataOf(state, state.roles), remote), outs, setLevel))

\* Exists: d holds the state, which the hook does not change.
Exists ==
  /\ state.id # ""
  /\ \E outs \in [CallIdx -> Outcomes] :
       LET c == resourceSecurityUserRoleExists(Start(DataOf(state, state.roles), remote), outs)
       IN /\ last' = [hook |-> "Exists", pre |-> Pre, calls |-> c.calls, err |-> c.err,
                      exists |-> c.exists]
          /\ UNCHANGED <<remote, state, config, calc>>

\* The configuration's roles are edited.
Configure ==
  /\ \E rs \in SUBSET Roles : rs # config /\ config' = rs
  /\ last' = NoHook
  /\ UNCHANGED <<remote, state, calc>>

\* Other actors: they grant a role (the list may then name it twice), revoke
\* one, change the user's e-mail address, delete the user or create it.
OtherGrant ==
  /\ remote.present /\ Len(remote.roles) < MaxRoles
  /\ \E r \in Roles : remote' = [remote EXCEPT !.roles = Append(@, r)]
  /\ last' = NoHook
  /\ UNCHANGED <<state, config, calc>>

OtherRevoke ==
  /\ remote.present
  /\ \E r \in Range(remote.roles) :
       remote' = [remote EXCEPT !.roles = SelectSeq(@, LAMBDA x : x # r)]
  /\ last' = NoHook
  /\ UNCHANGED <<state, config, calc>>

OtherSetEmail ==
  /\ remote.present
  /\ \E e \in Emails : e # remote.email /\ remote' = [remote EXCEPT !.email = e]
  /\ last' = NoHook
  /\ UNCHANGED <<state, config, calc>>

OtherDeleteUser ==
  /\ remote.present
  /\ remote' = NoUser
  /\ last' = NoHook
  /\ UNCHANGED <<state, config, calc>>

OtherCreateUser ==
  /\ ~remote.present
  /\ remote' = [present |-> TRUE, userid |-> UserId, roles |-> <<>>, email |-> "a@x"]
  /\ last' = NoHook
  /\ UNCHANGED <<state, config, calc>>

\* The users the store may hold.
RoleLists == UNION {[1..n -> Roles] : n \in 0..MaxRoles}
RemoteUsers ==
  [present : {TRUE}, userid : {UserId}, roles : RoleLists, email : Emails]

\* The resource is not created yet; the store holds the user, with any
\* roles, or does not; the configuration declares any set of roles.
Init ==
  /\ remote \in {NoUser} \cup RemoteUsers
  /\ state = AbsentState
  /\ config \in SUBSET Roles
  /\ last = NoHook
  /\ calc = NoCalc

Next ==
  \/ Create
  \/ Read
  \/ Update
  \/ Delete
  \/ Exists
  \/ Configure
  \/ OtherGrant
  \/ OtherRevoke
  \/ OtherSetEmail
  \/ OtherDeleteUser
  \/ OtherCreateUser

Spec == Init /\ [][Next]_vars

\* ------------------------------------------------------------ interleaving
\* A hook blocks in each client call, and another actor may edit the user
\* between two calls of the same run.  Here another actor grants role r after
\* the run's Get and before its replace.
Interleave(c, r) ==
  IF c.remote.present THEN [c EXCEPT !.remote.roles = Append(@, r)] ELSE c

\* Create with a grant between its read (line 133) and its replace (line 140).
resourceSecurityUserRoleCreateRaced(c, outs, r) ==
  LET c0 == [c EXCEPT !.d.id = c.d.userid]
      c1 == resourceSecurityUserRoleRead(c0, outs)
  IN IF c1.err # NoErr THEN c1
     ELSE LET user == getSecurityUserRoleFromResourceData(c1.d)
              c2 == Replace(Interleave(c1, r), user, outs)
          IN IF c2.err # NoErr THEN c2
             ELSE resourceSecurityUserRead([c2 EXCEPT !.d.id = user.userid], outs)

\* Delete with a grant between its Get (line 165) and the replace of the
\* Update it calls (line 190).
resourceSecurityUserRoleDeleteRaced(c, outs, setLevel, r) ==
  LET g == ClientGet(c.remote, c.d.id, NextOut(c, outs))
      c1 == [c EXCEPT !.calls = Append(@, GetCall(c, g))]
  IN IF g.err # NoErr THEN [c1 EXCEPT !.err = g.err]
     ELSE IF ~g.user.present THEN [c1 EXCEPT !.err = Panic]
     ELSE LET stateUser == getSecurityUserRoleFromResourceData(c1.d)
              roles == RemainingRoles(stateUser.roles, g.user.roles)
              c2 == [c1 EXCEPT !.d.roles = Range(roles)]
              c3 == resourceSecurityUserRoleUpdate(Interleave(c2, r), outs, setLevel)
          IN IF c3.err # NoErr THEN c3
             ELSE [c3 EXCEPT !.d.id = ""]

CreateRaced ==
  /\ state.id = ""
  /\ remote.present /\ Len(remote.roles) < MaxRoles
  /\ \E outs \in [CallIdx -> Outcomes], r \in Roles :
       Finish("Create",
              resourceSecurityUserRoleCreateRaced(
                Start(DataOf([AbsentState EXCEPT !.userid = UserId], config), remote), outs, r))

DeleteRaced ==
  /\ state.id # ""
  /\ remote.present /\ Len(remote.roles) < MaxRoles
  /\ \E outs \in [CallIdx -> Outcomes], setLevel \in BOOLEAN, r \in Roles :
       Finish("Delete",
              resourceSecurityUserRoleDeleteRaced(
                Start(DataOf(state, state.roles), remote), outs, setLevel, r))

NextRace ==
  \/ Next
  \/ CreateRaced
  \/ DeleteRaced

SpecRace == Init /\ [][NextRace]_vars

\* ------------------------------------------------------------ the computations alone
\* Delete's remainder and Exists' comparison applied to role lists drawn from
\* a wider set of roles, outside any hook.
MaxCalcLen == 3
CalcRoles == Roles \cup {"qa"}
\* stateUser.Roles: the members of a set, each once, in any order.
LocalLists ==
  {s \in UNION {[1..n -> CalcRoles] : n \in 0..Cardinality(CalcRoles)} :
     \A i, j \in DOMAIN s : i # j => s[i] # s[j]}
\* apiUser.Roles: any list.
ApiLists == UNION {[1..n -> CalcRoles] : n \in 0..MaxCalcLen}

CalcInit ==
  /\ remote = NoUser
  /\ state = AbsentState
  /\ config = {}
  /\ last = NoHook
  /\ calc \in [step : {"input"}, D : LocalLists, R : ApiLists, once : {<<>>}, twice : {<<>>},
               ab : {FALSE}, ba : {FALSE}]

\* The remainder of R once D is removed.
CalcRemainder ==
  /\ calc.step = "input"
  /\ calc' = [calc EXCEPT !.step = "removed", !.once = RemainingRoles(calc.D, calc.R)]
  /\ UNCHANGED <<remote, state, config, last>>

\* D removed again from the remainder.
CalcRemainderAgain ==
  /\ calc.step = "removed"
  /\ calc' = [calc EXCEPT !.step = "removed twice", !.twice = RemainingRoles(calc.D, calc.once)]
  /\ UNCHANGED <<remote, state, config, last>>

\* The comparison with D local and R remote, and with the two exchanged.
CalcCompare ==
  /\ calc.step = "input"
  /\ calc' = [calc EXCEPT !.step = "compared",
                          !.ab = RolesMatch(calc.D, calc.R),
                          !.ba = RolesMatch(calc.R, calc.D)]
  /\ UNCHANGED <<remote, state, config, last>>

CalcNext ==
  \/ CalcRemainder
  \/ CalcRemainderAgain
  \/ CalcCompare

SpecCalc == CalcInit /\ [][CalcNext]_vars

\* ------------------------------------------------------------ properties
\* The calls of the hook that has just run.
Calls == last.calls
IsGet(i) == Calls[i].op = "Get"
IsWrite(i) == Calls[i].op = "Update"
NotFound(i) == IsGet(i) /\ Calls[i].err = NoErr /\ ~Calls[i].user.present
Found(i) == IsGet(i) /\ Calls[i].err = NoErr /\ Calls[i].user.present
Mutating == {"Create", "Update", "Delete"}
Absent == state.id = ""

\* C1: no write a hook issues removes a foreign role: a role of the remote
\* user just before the write that is neither among the roles the resource
\* holds locally (the old Desired Subset) nor among the declared ones (the
\* new) is a role of the remote user just after the write.
C1_ForeignRolesSurvive ==
  last.hook \in Mutating =>
    \A i \in DOMAIN Calls :
      IsWrite(i) =>
        \A r \in Range(Calls[i].before.roles) :
          r \notin (last.pre.state.roles \cup config) => r \in Range(Calls[i].after.roles)

C3_CreateWritesUnion ==
  (last.hook = "Create" /\ Len(Calls) >= 2 /\ Found(1)) =>
    /\ IsWrite(2)
    /\ Range(Calls[2].user.roles) = Range(Calls[1].user.roles) \cup config
    /\ last.err = NoErr => ~Absent

\* C4: every write of a mutating hook comes after a successful Get of the
\* same invocation, and its roles are computed from what that Get returned.
C4_WriteFollowsGet ==
  last.hook \in Mutating =>
    \A i \in DOMAIN Calls :
      IsWrite(i) => \E j \in 1..(i - 1) : IsGet(j) /\ Calls[j].err = NoErr

\* C5: when its Get returns a user, Exists answers true exactly when the
\* remote roles and the local roles are the same set.
C5_ExistsIffSetEqual ==
  (last.hook = "Exists" /\ Found(1)) =>
    (last.exists <=> Range(Calls[1].user.roles) = last.pre.state.roles)

\* C6: in Read, Create, Delete and Exists a Get that reports not-found leaves
\* the resource ABSENT (Exists: answers false) and the hook returns no error
\* and does not crash.
C6_NotFoundIsAbsentNoError ==
  (last.hook \in {"Read", "Create", "Delete", "Exists"} /\ \E i \in DOMAIN Calls : NotFound(i)) =>
    /\ last.err = NoErr
    /\ IF last.hook = "Exists" THEN ~last.exists ELSE Absent

\* C7: when Create's initial read reports not-found, Create issues no write
\* and the remote store is unchanged.
C7_NoWriteAfterNotFound ==
  (last.hook = "Create" /\ NotFound(1)) =>
    /\ \A i \in DOMAIN Calls : ~IsWrite(i)
    /\ remote = last.pre.remote

\* C8: a call that fails is the hook's last call, the hook returns that
\* call's error as it is, and the remote user is the one before the hook or
\* a value the hook wrote in full.
C8_ErrorsPropagate ==
  last.hook # "none" =>
    /\ \A i \in DOMAIN Calls :
         Calls[i].err # NoErr => i = Len(Calls) /\ last.err = Calls[i].err
    /\ last.err \notin {NoErr, Panic} => Calls # <<>> /\ Calls[Len(Calls)].err = last.err
    /\ \/ remote = last.pre.remote
       \/ \E i \in DOMAIN Calls : IsWrite(i) /\ Calls[i].err = NoErr /\ remote = Calls[i].user

\* C8's case: Create's write has failed after a successful read; Create has
\* returned the write's error and made no further call.
C8_Witness ==
  /\ last.hook = "Create" /\ Len(Calls) = 2 /\ Found(1)
  /\ IsWrite(2) /\ Calls[2].err = "timeout"
  /\ last.err = "timeout"
  /\ remote = last.pre.remote

\* C9: a Create, Update or Delete that fails on a client error leaves the
\* local state as it was: a failed Create ABSENT, a failed Update or Delete
\* PRESENT with the local roles unchanged.
C9_FailedHookKeepsState ==
  (last.hook \in Mutating /\ last.err \notin {NoErr, Panic}) =>
    IF last.hook = "Create" THEN Absent
    ELSE ~Absent /\ state.roles = last.pre.state.roles

\* C10: Exists answers false with a nil error whenever its Get reports
\* not-found, whatever the local roles.
C10_ExistsNotFoundIsFalse ==
  (last.hook = "Exists" /\ NotFound(1)) => ~last.exists /\ last.err = NoErr

\* C10's case: the local roles are empty and the store holds no user.
C10_Witness ==
  /\ last.hook = "Exists" /\ NotFound(1)
  /\ last.pre.state.roles = {}
  /\ ~last.exists /\ last.err = NoErr


NoDuplicate(s) == \A i, j \in DOMAIN s : i # j => s[i] # s[j]

\* C11: the remainder of R after D holds every member of R that is not in D,
\* no member of D, and nothing that is not in R.
C11_RemainderKeepsForeign ==
  calc.step = "removed" =>
    /\ \A r \in Range(calc.R) : r \notin Range(calc.D) => r \in Range(calc.once)
    /\ Range(calc.once) \cap Range(calc.D) = {}
    /\ Range(calc.once) \subseteq Range(calc.R)

\* C11's case: D = {dev} and R = {admin, dev, qa} give {admin, qa}.
C11_Witness ==
  /\ calc.step = "removed"
  /\ calc.D = <<"dev">>
  /\ calc.R = <<"admin", "dev", "qa">>
  /\ calc.once = <<"admin", "qa">>

\* C12: for role sets A and B the comparison with A local and B remote
\* answers as the comparison with B local and A remote.
C12_ComparisonSymmetric ==
  (calc.step = "compared" /\ NoDuplicate(calc.R)) => calc.ab = calc.ba

\* C12's case: A = {admin} is a proper subset of B = {admin, dev}; both
\* comparisons answer false.
C12_Witness ==
  /\ calc.step = "compared"
  /\ calc.D = <<"admin">>
  /\ calc.R = <<"admin", "dev">>
  /\ ~calc.ab /\ ~calc.ba

\* C13: removing D from the remainder of R after D gives that remainder.
C13_RemovalIdempotent ==
  calc.step = "removed twice" => calc.twice = calc.once

\* C13's case: a remainder that is not empty and differs from R, removed
\* from twice.
C13_Witness ==
  /\ calc.step = "removed twice"
  /\ calc.D = <<"dev">>
  /\ calc.R = <<"dev", "admin", "dev">>
  /\ calc.once = <<"admin">>
  /\ calc.twice = <<"admin">>

\* A hook run in which every call reaches the store, from the state pre with
\* the declared roles cfg.
AllOk == [i \in CallIdx |-> Ok]
OneRun(hook, pre, cfg, setLevel) ==
  CASE hook = "Create" ->
         resourceSecurityUserRoleCreate(
           Start(DataOf([AbsentState EXCEPT !.userid = UserId], cfg), pre.remote), AllOk)
    [] hook = "Update" ->
         resourceSecurityUserRoleUpdate(Start(DataOf(pre.state, cfg), pre.remote), AllOk, FALSE)
    [] OTHER ->
         resourceSecurityUserRoleDelete(
           Start(DataOf(pre.state, pre.state.roles), pre.remote), AllOk, setLevel)

\* C14: a mutating hook run again right after a run of the same hook (no
\* other actor in between, the same declared roles), and succeeding, leaves
\* the remote roles and PRESENT/ABSENT as one successful run from the first
\* run's start would.
C14_RetryIdempotent ==
  [][(last.hook \in Mutating /\ last'.hook = last.hook /\ last'.err = NoErr) =>
       LET good == {sl \in BOOLEAN : OneRun(last.hook, last.pre, config, sl).err = NoErr}
       IN good # {} =>
            \E sl \in good :
              LET e == OneRun(last.hook, last.pre, config, sl)
              IN /\ remote'.roles = e.remote.roles
                 /\ (state'.id = "") = (StateOf(e.d).id = "")]_vars

\* Another actor changed the remote user between call i - 1 and call i.
Interleaved(i) == i > 1 /\ Calls[i].before # Calls[i - 1].after

\* C15: a successful replace of Create or Delete overwrites the user in full,
\* and a role of the remote user that the resource does not hold locally is
\* missing after it only when another actor edited the user between the
\* hook's Get and that replace.
C15_LostRoleOnlyWhenInterleaved ==
  last.hook \in {"Create", "Delete"} =>
    \A i \in DOMAIN Calls :
      (IsWrite(i) /\ Calls[i].err = NoErr) =>
        /\ Calls[i].after = Calls[i].user
        /\ (\E r \in Range(Calls[i].before.roles) :
              r \notin last.pre.state.roles /\ r \notin Range(Calls[i].after.roles))
           => Interleaved(i)

\* C15's case: another actor granted admin after Create's Get and before its
\* replace, and the replace removed it.
C15_Witness ==
  /\ last.hook = "Create" /\ last.err = NoErr
  /\ Len(Calls) = 3 /\ Found(1) /\ IsWrite(2)
  /\ Calls[2].before.roles = Append(Calls[1].after.roles, "admin")
  /\ "admin" \notin Range(Calls[1].user.roles)
  /\ "admin" \notin Range(remote.roles)

\* C16: Read and Exists issue no replace and leave the remote user as it
\* was, and so does an Update whose declared roles are the local ones: it
\* only re-reads.
C16_WritesOnlyWhenRolesChanged ==
  (\/ last.hook \in {"Read", "Exists"}
   \/ last.hook = "Update" /\ config = last.pre.state.roles) =>
    /\ Len(Calls) = 1 /\ IsGet(1)
    /\ remote = last.pre.remote

\* C16's case: an Update with unchanged roles on a user that holds roles; it
\* has made one Get and the user is as before.
C16_Witness ==
  /\ last.hook = "Update" /\ last.err = NoErr
  /\ config = last.pre.state.roles /\ config # {}
  /\ Calls # <<>> /\ Found(1) /\ Len(Calls) = 1
  /\ remote = last.pre.remote /\ remote.roles # <<>>

\* C17: a PRESENT resource's ID is the userid of the configuration, and every
\* Get and replace of Create, Update and Delete is addressed to that key.
C17_KeyIsUserId ==
  /\ ~Absent => state.id = UserId
  /\ last.hook \in Mutating => \A i \in DOMAIN Calls : Calls[i].key = UserId

\* C18: the e-mail address a mutating hook sends in a replace is the one the
\* remote user holds at the time of the write.
C18_WriteKeepsAttributes ==
  last.hook \in Mutating =>
    \A i \in DOMAIN Calls :
      (IsWrite(i) /\ Calls[i].before.present) => Calls[i].user.email = Calls[i].before.email

=============================================================================
